---------------------------- MODULE Spec2Model ----------------------------
(***************************************************************************)
(* A model of stdgif (src/stdgif/stdgif.py): the block quantiser           *)
(* handle_pixel with its glyph registry BITMAPS and make_char, the aspect  *)
(* fitter calculate_borders, and the two playback branches of main.        *)
(*                                                                         *)
(* The module is Python 2 code (sys.maxint, print_function import), so     *)
(* "/" on integers is floor division and round() rounds halves away from   *)
(* zero.  Strings are modelled as sequences of byte values.  A 32-bit      *)
(* bitmap is modelled as the set of its set bit positions (0 = least       *)
(* significant), so xor is symmetric difference and bin(..).count('1') is  *)
(* the cardinality.                                                        *)
(***************************************************************************)
EXTENDS Integers, Sequences, FiniteSets, TLC

VARIABLES
    pc,         \* which part of the program runs, and how far it is
    img,        \* handle_pixel: the frame, [size |-> <<w, h>>, px |-> pixels]
    xy,         \* handle_pixel: the block origin <<x, y>>
    cell,       \* handle_pixel: its locals at return
    borders,    \* calculate_borders: its four arguments
    new_size,   \* calculate_borders / main: the result <<width, height>>
    tty,        \* main: os.isatty(sys.stdout.fileno())
    forever,    \* main: args.forever
    delay,      \* main: args.delay, in tenths of a second
    nframes,    \* main: len(frames), the rendered frames
    cursor,     \* main: how many frames the loop has taken so far
    out,        \* main: what was written to stdout and the waits, in order
    exc,        \* main: the exception being propagated, or "none"
    status      \* main: the exit status, or "running"

pixelVars == <<img, xy, cell>>
playVars == <<tty, forever, delay, nframes, cursor, out, exc, status>>
vars == <<pc, img, xy, cell, borders, new_size, tty, forever, delay, nframes, cursor,
          out, exc, status>>

----------------------------------------------------------------------------
(* Bounds of the model *)

\* single-bit perturbations applied to a registry pattern: 0..MaxFlips
MaxFlips == 12
\* frame sizes of the block sweep: widths 1..MaxW, heights 1..MaxH
MaxW == 4
MaxH == 8

----------------------------------------------------------------------------
(* Integers and strings *)

Min2(a, b) == IF a < b THEN a ELSE b

SetMax(S) == CHOOSE m \in S : \A n \in S : n <= m
SetMin(S) == CHOOSE m \in S : \A n \in S : m <= n

\* range(a, b, step) as the set of its values
Range(a, b, step) == {v \in a..(b - 1) : (v - a) % step = 0}

\* str(n) for a non-negative integer, as ASCII byte values
RECURSIVE str(_)
str(n) == IF n < 10 THEN <<48 + n>> ELSE str(n \div 10) \o <<48 + (n % 10)>>

\* sep.join(parts)
RECURSIVE join(_, _)
join(sep, parts) ==
    IF parts = <<>> THEN <<>>
    ELSE IF Len(parts) = 1 THEN parts[1]
    ELSE parts[1] \o sep \o join(sep, Tail(parts))

\* unicode.encode('utf-8') of one code point below 0x10000
encode_utf8(c) ==
    IF c < 128 THEN <<c>>
    ELSE IF c < 2048 THEN <<192 + (c \div 64), 128 + (c % 64)>>
    ELSE <<224 + (c \div 4096), 128 + ((c \div 64) % 64), 128 + (c % 64)>>

ESC == 27


----------------------------------------------------------------------------
(* BITMAPS, lines 74-145: each entry <<high 16 bits, low 16 bits, glyph>>   *)
(* of the key 0xHHHHLLLL, in the order of the dict literal; the glyph is   *)
(* its code point.                                                         *)

BITMAPS == <<
    <<\H0000, \H0000, 32>>,
    <<\H0000, \H000f, \H2581>>,
    <<\H0000, \H00ff, \H2582>>,
    <<\H0000, \H0fff, \H2583>>,
    <<\H0000, \Hffff, \H2584>>,
    <<\H000f, \Hffff, \H2585>>,
    <<\H00ff, \Hffff, \H2586>>,
    <<\H0fff, \Hffff, \H2587>>,
    <<\Heeee, \Heeee, \H258a>>,
    <<\Hcccc, \Hcccc, \H258c>>,
    <<\H8888, \H8888, \H258e>>,
    <<\H0000, \Hcccc, \H2596>>,
    <<\H0000, \H3333, \H2597>>,
    <<\Hcccc, \H0000, \H2598>>,
    <<\Hcccc, \H3333, \H259a>>,
    <<\H3333, \H0000, \H259d>>,
    <<\H000f, \Hf000, \H2501>>,
    <<\H6666, \H6666, \H2503>>,
    <<\H0007, \H7666, \H250f>>,
    <<\H000e, \He666, \H2513>>,
    <<\H6667, \H7000, \H2517>>,
    <<\H666e, \He000, \H251b>>,
    <<\H6667, \H7666, \H2523>>,
    <<\H666e, \He666, \H252b>>,
    <<\H000f, \Hf666, \H2533>>,
    <<\H666f, \Hf000, \H253b>>,
    <<\H666f, \Hf666, \H254b>>,
    <<\H000c, \Hc000, \H2578>>,
    <<\H0003, \H3000, \H257a>>,
    <<\H0660, \H0660, \H254f>>,
    <<\H000f, \H0000, \H2500>>,
    <<\H0000, \Hf000, \H2500>>,
    <<\H000e, \H0000, \H2574>>,
    <<\H0000, \He000, \H2574>>,
    <<\H4444, \H0000, \H2575>>,
    <<\H2222, \H0000, \H2575>>,
    <<\H0003, \H0000, \H2576>>,
    <<\H0000, \H3000, \H2576>>,
    <<\H0000, \H4444, \H2575>>,
    <<\H0000, \H2222, \H2575>>,
    <<\H4444, \H4444, \H23a2>>,
    <<\H2222, \H2222, \H23a5>>,
    <<\H0f00, \H0000, \H23ba>>,
    <<\H00f0, \H0000, \H23bb>>,
    <<\H0000, \H0f00, \H23bc>>,
    <<\H0000, \H00f0, \H23bd>>,
    <<\H0006, \H6000, \H25aa>>
>>

\* the set bit positions of a 16-bit half, shifted by `base`
HalfBits(half, base) == {b + base : b \in {c \in 0..15 : (half \div (2 ^ c)) % 2 = 1}}

\* the 32-bit key of registry entry n, as a bit set
BitmapBits == [n \in 1..Len(BITMAPS) |->
                  HalfBits(BITMAPS[n][1], 16) \cup HalfBits(BITMAPS[n][2], 0)]

\* a ^ b on bit sets
xor(a, b) == (a \ b) \cup (b \ a)

\* ~bitmap & 0xffffffff
invert32(bitmap) == (0..31) \ bitmap

\* bin(v).count('1')
popcount(v) == Cardinality(v)

\* bits << 1
shl1(bits) == {b + 1 : b \in bits}

sys_maxint == 2147483647

\* u' ░▒▓█', line 258
RAMP == <<32, \H2591, \H2592, \H2593, \H2588>>

----------------------------------------------------------------------------
(* esc and make_char, lines 148-176 *)

\* esc(*args): '\x1b[' + ';'.join(str(arg)) + 'sm'
esc(args) ==
    <<ESC, 91>> \o join(<<59>>, [n \in 1..Len(args) |-> str(args[n])]) \o <<115, 109>>

\* '\x1b[0m '
RESET_SPACE == <<ESC, 91, 48, 109, 32>>

\* make_char with the all-black test written as a comparison of the two
\* lists with 0, which is never true: the shortcut is never taken
make_char_no_shortcut(c, fg, bg) ==
    IF Len(fg) < 3 \/ Len(bg) < 3
    THEN [raised |-> "IndexError", text |-> <<>>]
    ELSE [raised |-> "none",
          text |-> esc(<<38, 2, fg[1], fg[2], fg[3]>>)
                   \o esc(<<48, 2, bg[1], bg[2], bg[3]>>)
                   \o encode_utf8(c)]

\* make_char(c, fg, bg); indexing a colour list that has no components
\* raises IndexError
make_char(c, fg, bg) ==
    IF Len(fg) < 3 \/ Len(bg) < 3
    THEN [raised |-> "IndexError", text |-> <<>>]
    ELSE IF fg[1] = 0 /\ fg[2] = 0 /\ fg[3] = 0 /\ bg[1] = 0 /\ bg[2] = 0 /\ bg[3] = 0
    THEN [raised |-> "none", text |-> RESET_SPACE]
    ELSE [raised |-> "none",
          text |-> esc(<<38, 2, fg[1], fg[2], fg[3]>>)
                   \o esc(<<48, 2, bg[1], bg[2], bg[3]>>)
                   \o encode_utf8(c)]

----------------------------------------------------------------------------
(* handle_pixel, lines 184-266 *)

\* img.getpixel((i, j))
getpixel(image, i, j) == image.px[<<i, j>>]

\* the pixels of the block at (x, y), as the loops of lines 193-194 and
\* 216-217 bound them
BlockCoords(image, x, y) ==
    LET x_offset == Min2(x + 4, image.size[1])
        y_offset == Min2(y + 8, image.size[2])
    IN  {<<i, j>> : i \in x..(x_offset - 1), j \in y..(y_offset - 1)}

\* the visiting order of lines 216-217: rows outermost, then columns
ScanOrder(image, x, y) ==
    LET x_offset == Min2(x + 4, image.size[1])
        y_offset == Min2(y + 8, image.size[2])
        cols == x_offset - x
        rows == y_offset - y
    IN  [n \in 1..(rows * cols) |-> <<x + ((n - 1) % cols), y + ((n - 1) \div cols)>>]

\* lines 190-198: per-channel maximum, starting from [0, 0, 0]
max_rgb(image, x, y) ==
    [ch \in 1..3 |-> SetMax({0} \cup {getpixel(image, p[1], p[2])[ch] : p \in BlockCoords(image, x, y)})]

\* lines 190-198: per-channel minimum, starting from [255, 255, 255]
min_rgb(image, x, y) ==
    [ch \in 1..3 |-> SetMin({255} \cup {getpixel(image, p[1], p[2])[ch] : p \in BlockCoords(image, x, y)})]

\* lines 200-208: the channel of the strictly largest range, the first on a
\* tie; channels are numbered 1..3 here (0..2 in the source)
RECURSIVE best_channel(_, _, _, _)
best_channel(maxs, mins, channel, best) ==
    IF channel > 3 THEN best
    ELSE LET split == maxs[channel] - mins[channel]
         IN  IF split > best.best_split
             THEN best_channel(maxs, mins, channel + 1,
                               [best_split |-> split, split_channel |-> channel])
             ELSE best_channel(maxs, mins, channel + 1, best)

\* line 210: min_rgb[split_channel] + best_split / 2 (integer division)
split_value(lo, best_split) == lo + (best_split \div 2)

\* lines 218-227: the body of the loop for one pixel
partition_step(image, coord, split_channel, split_val, acc) ==
    LET rgba == getpixel(image, coord[1], coord[2])
        rgb == <<rgba[1], rgba[2], rgba[3]>>
        bits == shl1(acc.bits)
        num == rgba[split_channel] % 256
    IN  IF num > split_val
        THEN [bits |-> bits \cup {0},
              fg_color |-> Append(acc.fg_color, rgb),
              bg_color |-> acc.bg_color]
        ELSE [bits |-> bits,
              fg_color |-> acc.fg_color,
              bg_color |-> Append(acc.bg_color, rgb)]

\* lines 212-227: one pass over coords[lo..hi] in scan order, from `acc`
\* (the range is halved and the first half evaluated to a value `left`
\* before the second half starts from it, which keeps the evaluation
\* shallow; the pixels are still visited first to last)
RECURSIVE partition(_, _, _, _, _, _, _)
partition(image, coords, lo, hi, split_channel, split_val, acc) ==
    IF lo > hi THEN acc
    ELSE IF lo = hi THEN partition_step(image, coords[lo], split_channel, split_val, acc)
    ELSE CHOOSE r \in
            {partition(image, coords, ((lo + hi) \div 2) + 1, hi, split_channel, split_val, left) :
                left \in {partition(image, coords, lo, (lo + hi) \div 2,
                                    split_channel, split_val, acc)}} : TRUE

RECURSIVE sum_range(_, _, _)
sum_range(s, lo, hi) ==
    IF lo > hi THEN 0
    ELSE IF lo = hi THEN s[lo]
    ELSE sum_range(s, lo, (lo + hi) \div 2) + sum_range(s, ((lo + hi) \div 2) + 1, hi)

\* sum(s)
sum(s) == sum_range(s, 1, Len(s))

\* lines 229-230: [sum(color) / len(color) for color in zip(*colors)];
\* zip(*[]) is empty, so an empty list of colours gives an empty list
avg_rgb(colors) ==
    IF Len(colors) = 0 THEN <<>>
    ELSE [ch \in 1..3 |-> sum([n \in 1..Len(colors) |-> colors[n][ch]]) \div Len(colors)]

\* lines 232-236 left out: an empty average stays empty
default_fg_missing(avg_fg, avg_bg) == avg_fg

\* lines 232-236: both tests assign avg_fg_rgb
default_fg(avg_fg, avg_bg) ==
    LET fg1 == IF Len(avg_fg) = 0 THEN <<0, 0, 0>> ELSE avg_fg
    IN  IF Len(avg_bg) = 0 THEN <<0, 0, 0>> ELSE fg1

\* lines 243 and 251: only a strict improvement replaces the best match
improves(diff, best_diff) == diff < best_diff

\* match_step with the two assignments of `inverted` exchanged
match_step_flags_swapped(key, bits, best) ==
    LET bitmap == BitmapBits[key]
        diff == popcount(xor(bitmap, bits))
        b1 == IF improves(diff, best.best_diff)
              THEN [character |-> BITMAPS[key][3], best_diff |-> diff, inverted |-> TRUE]
              ELSE best
        not_diff == popcount(xor(invert32(bitmap), bits))
    IN  IF improves(not_diff, b1.best_diff)
        THEN [character |-> BITMAPS[key][3], best_diff |-> not_diff, inverted |-> FALSE]
        ELSE b1

\* lines 241-254: the body of the loop for one key (an index into BITMAPS)
match_step(key, bits, best) ==
    LET bitmap == BitmapBits[key]
        diff == popcount(xor(bitmap, bits))
        b1 == IF improves(diff, best.best_diff)
              THEN [character |-> BITMAPS[key][3], best_diff |-> diff, inverted |-> FALSE]
              ELSE best
        not_diff == popcount(xor(invert32(bitmap), bits))
    IN  IF improves(not_diff, b1.best_diff)
        THEN [character |-> BITMAPS[key][3], best_diff |-> not_diff, inverted |-> TRUE]
        ELSE b1

\* lines 238-254: the loop over list(BITMAPS.keys()); `keys` is that list,
\* as indices into BITMAPS, and keys[lo..hi] are visited first to last
\* (halved like partition)
RECURSIVE match(_, _, _, _, _)
match(keys, lo, hi, bits, best) ==
    IF lo > hi THEN best
    ELSE IF lo = hi THEN match_step(keys[lo], bits, best)
    ELSE CHOOSE r \in
            {match(keys, ((lo + hi) \div 2) + 1, hi, bits, left) :
                left \in {match(keys, lo, (lo + hi) \div 2, bits, best)}} : TRUE

\* line 256 with >= for >
use_fallback_at_10(best_diff) == best_diff >= 10

\* line 256
use_fallback(best_diff) == best_diff > 10

\* lines 258-259: the ramp glyph for a count of foreground pixels
ramp_glyph(n_fg) == RAMP[Min2(4, (n_fg * 5) \div 32) + 1]

\* lines 256-259
fallback(best, n_fg) ==
    IF use_fallback(best.best_diff)
    THEN [character |-> ramp_glyph(n_fg), best_diff |-> best.best_diff, inverted |-> FALSE]
    ELSE best

\* lines 261-264 left out: the colours are never swapped
swap_never(inverted, avg_fg, avg_bg) == <<avg_fg, avg_bg>>

\* lines 261-264: <<avg_fg_rgb, avg_bg_rgb>> after the swap
swap_if(inverted, avg_fg, avg_bg) ==
    IF inverted THEN <<avg_bg, avg_fg>> ELSE <<avg_fg, avg_bg>>

\* handle_pixel(img, x, y) with the registry iterated in the order `keys`:
\* its locals at the return, and what make_char returned
handle_pixel(image, x, y, keys) ==
    LET maxs == max_rgb(image, x, y)
        mins == min_rgb(image, x, y)
        sp == best_channel(maxs, mins, 1, [best_split |-> 0, split_channel |-> 1])
        split_val == split_value(mins[sp.split_channel], sp.best_split)
        coords == ScanOrder(image, x, y)
        part == partition(image, coords, 1, Len(coords), sp.split_channel, split_val,
                          [bits |-> {}, fg_color |-> <<>>, bg_color |-> <<>>])
        avg_bg0 == avg_rgb(part.bg_color)
        avg_fg0 == avg_rgb(part.fg_color)
        avg_fg1 == default_fg(avg_fg0, avg_bg0)
        best0 == match(keys, 1, Len(keys), part.bits,
                       [character |-> 0, best_diff |-> sys_maxint, inverted |-> FALSE])
        best == fallback(best0, Len(part.fg_color))
        colors == swap_if(best.inverted, avg_fg1, avg_bg0)
    IN  [keys |-> keys,
         bits |-> part.bits,
         fg_color |-> part.fg_color,
         bg_color |-> part.bg_color,
         best_diff |-> best.best_diff,
         inverted |-> best.inverted,
         character |-> best.character,
         avg_fg_rgb |-> colors[1],
         avg_bg_rgb |-> colors[2],
         ret |-> make_char(best.character, colors[1], colors[2])]

----------------------------------------------------------------------------
(* The frames handle_pixel is applied to.  frame_to_ansi (lines 269-282)   *)
(* calls it at every x in range(0, w, 4) and y in range(0, h, 8) of an     *)
(* RGBA frame.                                                             *)

\* Orders in which list(BITMAPS.keys()) may come out: a dict's order is the
\* interpreter's, not the source's
KeyOrders ==
    LET n == Len(BITMAPS)
    IN  {[k \in 1..n |-> k],
         [k \in 1..n |-> n + 1 - k],
         [k \in 1..n |-> ((k + 15) % n) + 1]}

\* <<pixels set in even rows, pixels set in odd rows, pixels clear>>, RGBA
Tones == {
    <<<<255, 255, 255, 255>>, <<255, 255, 255, 255>>, <<0, 0, 0, 255>>>>,
    <<<<0, 0, 0, 255>>, <<0, 0, 0, 255>>, <<255, 255, 255, 255>>>>,
    <<<<200, 100, 50, 255>>, <<181, 120, 50, 255>>, <<10, 20, 31, 0>>>>,
    <<<<0, 0, 0, 255>>, <<0, 0, 0, 0>>, <<0, 0, 0, 255>>>>,
    <<<<7, 7, 7, 255>>, <<7, 7, 7, 255>>, <<7, 7, 7, 255>>>>,
    <<<<255, 0, 0, 255>>, <<128, 0, 0, 255>>, <<1, 0, 0, 255>>>>,
    <<<<0, 90, 255, 128>>, <<0, 80, 255, 128>>, <<0, 90, 0, 128>>>>
}

\* bit positions flipped one after the other to move a pattern away from a
\* registry key
FlipOrder == <<0, 31, 13, 18, 5, 26, 10, 21, 3, 28, 15, 16, 7, 24, 9, 22, 1, 30>>

Flipped(bitmap, k) == xor(bitmap, {FlipOrder[n] : n \in 1..Min2(k, Len(FlipOrder))})

\* 0xffffffff, 0xa5a5a5a5, 0x5a5a5a5a, 0xaaaaaaaa, 0x33333333, 0x0ff00ff0
ExtraPatterns == {
    0..31,
    HalfBits(\Ha5a5, 16) \cup HalfBits(\Ha5a5, 0),
    HalfBits(\H5a5a, 16) \cup HalfBits(\H5a5a, 0),
    HalfBits(\Haaaa, 16) \cup HalfBits(\Haaaa, 0),
    HalfBits(\H3333, 16) \cup HalfBits(\H3333, 0),
    HalfBits(\H0ff0, 16) \cup HalfBits(\H0ff0, 0)
}

\* patterns of the full 4x8 block: every registry key with 0..MaxFlips bits
\* flipped
FullPatterns ==
    {Flipped(BitmapBits[n], k) : n \in 1..Len(BITMAPS), k \in 0..MaxFlips} \cup ExtraPatterns

\* patterns of the sweep over frame sizes: 0x00000000, 0xcccccccc,
\* 0x0000ffff, 0xffffffff, 0xa5a5a5a5, 0x33333333
SweepPatterns ==
    {BitmapBits[1], BitmapBits[10], BitmapBits[5],
     0..31,
     HalfBits(\Ha5a5, 16) \cup HalfBits(\Ha5a5, 0),
     HalfBits(\H3333, 16) \cup HalfBits(\H3333, 0)}

\* the w x h frame whose pixel (i, j) is set when the pattern has the bit of
\* column i % 4, row j % 8 of a 4x8 block (first pixel most significant)
Paint(w, h, pattern, tone) ==
    [size |-> <<w, h>>,
     px |-> [p \in (0..(w - 1)) \X (0..(h - 1)) |->
                IF (31 - (4 * (p[2] % 8) + (p[1] % 4))) \in pattern
                THEN IF p[2] % 2 = 0 THEN tone[1] ELSE tone[2]
                ELSE tone[3]]]

Frames ==
    {Paint(4, 8, pattern, tone) : pattern \in FullPatterns, tone \in Tones}
    \cup {Paint(w, h, pattern, tone) :
              w \in 1..MaxW, h \in 1..MaxH, pattern \in SweepPatterns, tone \in Tones}

NoImage == [size |-> <<0, 0>>, px |-> <<>>]
NoCell == [ret |-> [raised |-> "none", text |-> <<>>]]
NoBorders == <<0, 0, 0, 0>>

\* the variables of the parts of the program that are not running
IdlePixel == img = NoImage /\ xy = <<0, 0>> /\ cell = NoCell
IdlePlay ==
    /\ tty = FALSE
    /\ forever = FALSE
    /\ delay = 0
    /\ nframes = 0
    /\ cursor = 0
    /\ out = <<>>
    /\ exc = "none"
    /\ status = "running"

\* frame_to_ansi reaches a block of some frame
InitPixel ==
    /\ pc = "block"
    /\ img \in Frames
    /\ xy \in Range(0, img.size[1], 4) \X Range(0, img.size[2], 8)
    /\ cell = NoCell
    /\ borders = NoBorders
    /\ new_size = <<0, 0>>
    /\ IdlePlay

\* handle_pixel(frame, x, y), line 275
HandlePixel ==
    /\ pc = "block"
    /\ \E keys \in KeyOrders : cell' = handle_pixel(img, xy[1], xy[2], keys)
    /\ pc' = "cell"
    /\ UNCHANGED <<img, xy, borders, new_size, playVars>>

NextPixel == HandlePixel

SpecPixel == InitPixel /\ [][NextPixel]_vars

----------------------------------------------------------------------------
(* Properties of handle_pixel, checked under SpecPixel *)

\* the pixels of the block handle_pixel was given
BlockPixels == {getpixel(img, p[1], p[2]) : p \in BlockCoords(img, xy[1], xy[2])}

\* the channel-wise integer mean of a list of colours
MeanColour(colors) ==
    [ch \in 1..3 |-> sum([n \in 1..Len(colors) |-> colors[n][ch]]) \div Len(colors)]

\* the colour of the pixels above the threshold (bit 1), black when none is
OnesColour == IF cell.fg_color = <<>> THEN <<0, 0, 0>> ELSE MeanColour(cell.fg_color)

\* the colour of the pixels at or below the threshold (bit 0)
ZerosColour == IF cell.bg_color = <<>> THEN <<0, 0, 0>> ELSE MeanColour(cell.bg_color)

\* the Hamming distances of the coverage bitmap to every registry pattern,
\* in the direct and in the 32-bit inverted orientation
Distances ==
    {Cardinality((BitmapBits[n] \ cell.bits) \cup (cell.bits \ BitmapBits[n])) :
        n \in 1..Len(BITMAPS)}
    \cup
    {Cardinality((((0..31) \ BitmapBits[n]) \ cell.bits)
                    \cup (cell.bits \ ((0..31) \ BitmapBits[n]))) :
        n \in 1..Len(BITMAPS)}

MinDistance == SetMin(Distances)

\* C1: a block whose coverage bitmap equals a registry key gets the glyph
\* registered for that key, with best distance 0 and no inversion (the
\* colours are not swapped), whatever the iteration order of the registry.
C1_ExactMatch ==
    pc = "cell" =>
        \A n \in 1..Len(BITMAPS) :
            cell.bits = BitmapBits[n] =>
                /\ cell.character = BITMAPS[n][3]
                /\ cell.best_diff = 0
                /\ cell.inverted = FALSE
                /\ cell.avg_fg_rgb = OnesColour
                /\ cell.avg_bg_rgb = ZerosColour

\* a 4x8 block equal to the key 0x000ff666, registry iterated in reverse
C1_Witness ==
    /\ pc = "cell"
    /\ cell.bits = BitmapBits[25]
    /\ cell.keys[1] = Len(BITMAPS)
    /\ cell.character = 9523
    /\ cell.avg_fg_rgb # cell.avg_bg_rgb

\* C2: a block of width 1..4 and height 1..8 whose pixels all have
\* R = G = B = 0 yields exactly ESC[0m followed by one space.
C2_AllBlack ==
    (pc = "cell" /\ \A p \in BlockPixels : p[1] = 0 /\ p[2] = 0 /\ p[3] = 0) =>
        /\ cell.ret.raised = "none"
        /\ cell.ret.text = <<27, 91, 48, 109, 32>>

\* an all-black 3x5 block
C2_Witness ==
    /\ pc = "cell"
    /\ img.size = <<3, 5>>
    /\ \A p \in BlockPixels : p[1] = 0 /\ p[2] = 0 /\ p[3] = 0
    /\ cell.ret.text = <<27, 91, 48, 109, 32>>

\* C3: handle_pixel returns a cell and raises nothing; both colours passed
\* to make_char have three components, and a side of the split that has
\* no pixels has colour (0, 0, 0).
C3_NoFault ==
    pc = "cell" =>
        /\ cell.ret.raised = "none"
        /\ Len(cell.ret.text) > 0
        /\ Len(cell.avg_fg_rgb) = 3
        /\ Len(cell.avg_bg_rgb) = 3
        /\ cell.fg_color = <<>> =>
              (IF cell.inverted THEN cell.avg_bg_rgb ELSE cell.avg_fg_rgb) = <<0, 0, 0>>
        /\ cell.bg_color = <<>> =>
              (IF cell.inverted THEN cell.avg_fg_rgb ELSE cell.avg_bg_rgb) = <<0, 0, 0>>

\* a uniform block that is not black: split range 0, no pixel above the
\* threshold, and a coloured cell comes back
C3_Witness ==
    /\ pc = "cell"
    /\ cell.fg_color = <<>>
    /\ cell.avg_fg_rgb = <<0, 0, 0>>
    /\ cell.avg_bg_rgb = <<7, 7, 7>>
    /\ Len(cell.ret.text) > 5

\* 0xcccccccc and 0x33333333
LeftHalf == HalfBits(52428, 16) \cup HalfBits(52428, 0)
RightHalf == HalfBits(13107, 16) \cup HalfBits(13107, 0)

\* C8: with the inversion flag set the foreground is the mean of the bit-0
\* pixels and the background the mean of the bit-1 pixels; with it clear
\* the foreground is the mean of the bit-1 pixels and the background the
\* mean of the bit-0 pixels.  Bitmap 0xcccccccc gives the left-half glyph
\* uninverted, bitmap 0x33333333 the same glyph inverted.
C8_Orientation ==
    pc = "cell" =>
        /\ cell.inverted =>
              cell.avg_fg_rgb = ZerosColour /\ cell.avg_bg_rgb = OnesColour
        /\ ~cell.inverted =>
              cell.avg_fg_rgb = OnesColour /\ cell.avg_bg_rgb = ZerosColour
        /\ cell.bits = LeftHalf => cell.character = 9612 /\ ~cell.inverted
        /\ cell.bits = RightHalf => cell.character = 9612 /\ cell.inverted

\* left half dark, right half bright: the left-half glyph, foreground dark
C8_Witness ==
    /\ pc = "cell"
    /\ cell.bits = RightHalf
    /\ cell.inverted
    /\ cell.character = 9612
    /\ cell.avg_fg_rgb = <<0, 0, 0>>
    /\ cell.avg_bg_rgb = <<255, 255, 255>>

\* C9: the fallback is taken exactly when the least Hamming distance over
\* all patterns in both orientations exceeds 10; then the glyph is the
\* ramp element at index min(4, floor(5 * foreground count / 32)), the
\* flag is false and the colours are not swapped.  Otherwise the glyph is
\* that of a registry pattern at the least distance, in the orientation
\* the flag names.
C9_Fallback ==
    pc = "cell" =>
        /\ cell.best_diff = MinDistance
        /\ MinDistance > 10 =>
              /\ cell.character =
                    <<32, 9617, 9618, 9619, 9608>>[
                        (IF (5 * Len(cell.fg_color)) \div 32 > 4 THEN 4
                         ELSE (5 * Len(cell.fg_color)) \div 32) + 1]
              /\ cell.inverted = FALSE
              /\ cell.avg_fg_rgb = OnesColour
              /\ cell.avg_bg_rgb = ZerosColour
        /\ MinDistance <= 10 =>
              \E n \in 1..Len(BITMAPS) :
                  /\ cell.character = BITMAPS[n][3]
                  /\ Cardinality(
                        (((IF cell.inverted THEN (0..31) \ BitmapBits[n] ELSE BitmapBits[n])
                            \ cell.bits)
                         \cup (cell.bits \
                                (IF cell.inverted THEN (0..31) \ BitmapBits[n] ELSE BitmapBits[n]))))
                       = MinDistance

\* a checkerboard block with no near match: the medium shade
C9_Witness ==
    /\ pc = "cell"
    /\ MinDistance > 10
    /\ Len(cell.fg_color) = 16
    /\ cell.character = 9618
    /\ cell.inverted = FALSE

\* a block at distance exactly 10 from the nearest pattern keeps the
\* registry glyph
C9_WitnessKept ==
    /\ pc = "cell"
    /\ MinDistance = 10
    /\ cell.character \notin {9617, 9618, 9619, 9608}

----------------------------------------------------------------------------
(* calculate_borders, lines 320-339 *)

\* largest width or height given to calculate_borders
MaxDim == 6

\* Fraction(n, d) for positive integers, kept as the pair <<n, d>> (the
\* pair is not reduced to lowest terms; only its value is used)
Fraction(n, d) == <<n, d>>

\* a > b on fractions with positive denominators
frac_gt(a, b) == a[1] * b[2] > b[1] * a[2]

\* a * b on fractions
frac_mul(a, b) == <<a[1] * b[1], a[2] * b[2]>>

\* Fraction(n, f): the integer n divided by the fraction f
frac_of(n, f) == <<n * f[2], f[1]>>

\* int(round(f)) for a fraction f >= 0: Python 2's round goes through
\* float and rounds a half away from zero
int_round(f) == (2 * f[1] + f[2]) \div (2 * f[2])

\* line 329 with < for >
is_wider_flipped(original_ratio, bounding_ratio) == frac_gt(bounding_ratio, original_ratio)

\* line 329
is_wider(original_ratio, bounding_ratio) == frac_gt(original_ratio, bounding_ratio)

calculate_borders(bounding_width, bounding_height, original_width, original_height) ==
    LET original_ratio == Fraction(original_width, original_height)
        bounding_ratio == Fraction(bounding_width, bounding_height)
        wider == is_wider(original_ratio, bounding_ratio)
        height_1 == frac_of(bounding_width, original_ratio)
        width_1 == frac_mul(height_1, original_ratio)
        width_2 == frac_mul(<<bounding_height, 1>>, original_ratio)
        height_2 == frac_mul(Fraction(original_height, original_width), width_2)
        new_width == IF wider THEN width_1 ELSE width_2
        new_height == IF wider THEN height_1 ELSE height_2
    IN  <<Min2(int_round(new_width), bounding_width),
          Min2(int_round(new_height), bounding_height)>>

\* the arguments: all positive widths and heights up to MaxDim, and the
\* terminal of 80 x 24 with a source of 320 x 200
BorderInputs ==
    ((1..MaxDim) \X (1..MaxDim) \X (1..MaxDim) \X (1..MaxDim)) \cup {<<80, 24, 320, 200>>}

InitBorders ==
    /\ pc = "fit"
    /\ borders \in BorderInputs
    /\ new_size = <<0, 0>>
    /\ IdlePixel
    /\ IdlePlay

\* new_size = calculate_borders(...), line 383
CalculateBorders ==
    /\ pc = "fit"
    /\ new_size' = calculate_borders(borders[1], borders[2], borders[3], borders[4])
    /\ pc' = "fitted"
    /\ UNCHANGED <<pixelVars, borders, playVars>>

NextBorders == CalculateBorders

SpecBorders == InitBorders /\ [][NextBorders]_vars

\* |a - b|
AbsDiff(a, b) == IF a > b THEN a - b ELSE b - a

\* C4: the result fits the bounds and keeps the source ratio within one
\* rounding unit: |h * original_width - w * original_height| is at most
\* original_width or at most original_height; bounds 80 x 24 with a source
\* of 320 x 200 give (38, 24).
C4_FitsAndKeepsRatio ==
    pc = "fitted" =>
        /\ new_size[1] <= borders[1]
        /\ new_size[2] <= borders[2]
        /\ \/ AbsDiff(new_size[2] * borders[3], new_size[1] * borders[4]) <= borders[3]
           \/ AbsDiff(new_size[1] * borders[4], new_size[2] * borders[3]) <= borders[4]
        /\ borders = <<80, 24, 320, 200>> => new_size = <<38, 24>>

\* the example of the claim
C4_Witness ==
    /\ pc = "fitted"
    /\ borders = <<80, 24, 320, 200>>
    /\ new_size = <<38, 24>>

\* C5: for positive arguments both the width and the height returned are
\* at least 1.
C5_Positive ==
    pc = "fitted" => new_size[1] >= 1 /\ new_size[2] >= 1

----------------------------------------------------------------------------
(* The playback branches of main, lines 398-429.  stdout is modelled as    *)
(* the sequence `out` of what was printed, each element <<kind, value>>;    *)
(* a time.sleep is recorded in it as <<"wait", delay>>.  The model starts   *)
(* at line 398 with the frames rendered; the argument parsing before it    *)
(* is not modelled (line 352 registers '-h', which argparse already holds  *)
(* for --help, and line 383 reads args.w and args.h).                      *)

\* most frames of a sequence
MaxFrames == 3
\* largest height of the resized frames, in pixels
MaxHeight == 17
\* most frames a cycling loop is followed through
MaxTaken == 5

\* frame_to_ansi, lines 273-281: one text row per y in range(0, h, 8)
frame_rows(h) == Cardinality(Range(0, h, 8))

\* '\r\x1b[{h}A{frame}{sep}' with h = new_size[1], lines 405-408 and 420
\* (new_size[1] is the height; the tuple is numbered from 1 here)
frame_text(size, index) ==
    <<<<"cursor_up", size[2]>>, <<"frame", index>>, <<"sep", 0>>>>

\* the script block with the sleep statement before the closing delimiter
script_block_sleep_inside(size, offset, d) ==
    <<<<"cat_heredoc", offset>>>>
        \o frame_text(size, offset)
        \o <<<<"sleep_stmt", d>>, <<"end_heredoc", offset>>>>

\* the script block of one frame, lines 419-425
script_block(size, offset, d) ==
    <<<<"cat_heredoc", offset>>>>
        \o frame_text(size, offset)
        \o <<<<"end_heredoc", offset>>, <<"sleep_stmt", d>>>>

\* line 416
SCRIPT_HEADER == <<"header", 0>>
\* line 429
SCRIPT_CLEAR == <<"home_and_clear", 0>>
\* line 292
RESTORE == <<"restore", 0>>

\* the frames are rendered: main is at line 398
InitPlay ==
    /\ pc = "ready"
    /\ IdlePixel
    /\ borders = NoBorders
    /\ new_size \in {1, 8} \X (1..MaxHeight)
    /\ tty \in BOOLEAN
    /\ forever \in BOOLEAN
    /\ delay \in {1, 2}
    /\ nframes \in 0..MaxFrames
    /\ cursor = 0
    /\ out = <<>>
    /\ exc = "none"
    /\ status = "running"

\* lines 398-402: stdout is a terminal; RestoredTerminal.__enter__ does
\* nothing
EnterPlayback ==
    /\ pc = "ready"
    /\ tty
    /\ pc' = "for"
    /\ UNCHANGED <<pixelVars, borders, new_size, playVars>>

\* line 403: the loop takes the next frame; itertools.cycle (line 400)
\* never runs out unless there is no frame at all
TakeFrame ==
    /\ pc = "for"
    /\ IF forever THEN nframes > 0 /\ cursor < MaxTaken ELSE cursor < nframes
    /\ pc' = "print"
    /\ UNCHANGED <<pixelVars, borders, new_size, playVars>>

\* line 403: the frames have run out
LoopEnds ==
    /\ pc = "for"
    /\ IF forever THEN nframes = 0 ELSE cursor = nframes
    /\ pc' = "exit_ctx"
    /\ UNCHANGED <<pixelVars, borders, new_size, playVars>>

\* lines 404-410
PrintFrame ==
    /\ pc = "print"
    /\ out' = out \o frame_text(new_size, cursor % nframes)
    /\ pc' = "sleep"
    /\ UNCHANGED <<pixelVars, borders, new_size, tty, forever, delay, nframes, cursor,
                   exc, status>>

\* line 411
Sleep ==
    /\ pc = "sleep"
    /\ out' = Append(out, <<"wait", delay>>)
    /\ cursor' = cursor + 1
    /\ pc' = "for"
    /\ UNCHANGED <<pixelVars, borders, new_size, tty, forever, delay, nframes, exc, status>>

\* KeyboardInterrupt is raised while the loop runs: before a frame is
\* printed, or during the sleep after it
Interrupt ==
    /\ pc \in {"for", "print", "sleep"}
    /\ exc' = "KeyboardInterrupt"
    /\ pc' = "exit_ctx"
    /\ UNCHANGED <<pixelVars, borders, new_size, tty, forever, delay, nframes, cursor,
                   out, status>>

\* __exit__ that prints only when the block ended without an exception
ExitContext_clean_only ==
    /\ pc = "exit_ctx"
    /\ out' = IF exc = "none" THEN Append(out, <<"restore", 0>>) ELSE out
    /\ pc' = IF exc = "none" THEN "return" ELSE "except"
    /\ UNCHANGED <<pixelVars, borders, new_size, tty, forever, delay, nframes, cursor,
                   exc, status>>

\* RestoredTerminal.__exit__, lines 291-292: it prints and returns None, so
\* an exception goes on to the except clause of line 412
ExitContext ==
    /\ pc = "exit_ctx"
    /\ out' = Append(out, RESTORE)
    /\ pc' = IF exc = "none" THEN "return" ELSE "except"
    /\ UNCHANGED <<pixelVars, borders, new_size, tty, forever, delay, nframes, cursor,
                   exc, status>>

\* lines 412-413: sys.exit(128)
ExitOnInterrupt ==
    /\ pc = "except"
    /\ status' = 128
    /\ pc' = "exited"
    /\ UNCHANGED <<pixelVars, borders, new_size, tty, forever, delay, nframes, cursor,
                   out, exc>>

\* main returns and the interpreter exits with status 0
Return ==
    /\ pc = "return"
    /\ status' = 0
    /\ pc' = "exited"
    /\ UNCHANGED <<pixelVars, borders, new_size, tty, forever, delay, nframes, cursor,
                   out, exc>>

\* lines 414-416: stdout is no terminal
ScriptHeader ==
    /\ pc = "ready"
    /\ ~tty
    /\ out' = Append(out, SCRIPT_HEADER)
    /\ pc' = "script_for"
    /\ UNCHANGED <<pixelVars, borders, new_size, tty, forever, delay, nframes, cursor,
                   exc, status>>

\* lines 417-428: one pass of the loop over enumerate(frames)
ScriptFrame ==
    /\ pc = "script_for"
    /\ cursor < nframes
    /\ out' = out \o script_block(new_size, cursor, delay)
    /\ cursor' = cursor + 1
    /\ UNCHANGED <<pc, pixelVars, borders, new_size, tty, forever, delay, nframes,
                   exc, status>>

\* line 429
ScriptClear ==
    /\ pc = "script_for"
    /\ cursor = nframes
    /\ out' = Append(out, SCRIPT_CLEAR)
    /\ pc' = "return"
    /\ UNCHANGED <<pixelVars, borders, new_size, tty, forever, delay, nframes, cursor,
                   exc, status>>

\* KeyboardInterrupt while the script is written: nothing catches it (the
\* try of line 401 is in the other branch) and the interpreter exits with 1
ScriptInterrupt ==
    /\ pc = "script_for"
    /\ exc' = "KeyboardInterrupt"
    /\ status' = 1
    /\ pc' = "exited"
    /\ UNCHANGED <<pixelVars, borders, new_size, tty, forever, delay, nframes, cursor, out>>

NextPlay ==
    \/ EnterPlayback
    \/ TakeFrame
    \/ LoopEnds
    \/ PrintFrame
    \/ Sleep
    \/ Interrupt
    \/ ExitContext
    \/ ExitOnInterrupt
    \/ Return
    \/ ScriptHeader
    \/ ScriptFrame
    \/ ScriptClear
    \/ ScriptInterrupt

SpecPlay == InitPlay /\ [][NextPlay]_vars

----------------------------------------------------------------------------
(* Properties of the playback, checked under SpecPlay *)

\* the positions of `out` that hold an element of the given kind
Positions(kind) == {i \in DOMAIN out : out[i][1] = kind}

FramesPrinted == Cardinality(Positions("frame"))

\* C6: in interactive playback the terminal restoration is printed exactly
\* once before the process ends, as the last thing printed: after the last
\* frame on normal completion (status 0, every frame printed once), and
\* after an interrupt during a frame's emission or delay (status 128);
\* once the interrupt is raised no further frame is printed.
C6_RestoredOnce ==
    /\ [](tty =>
            /\ Cardinality(Positions("restore")) <= 1
            /\ pc = "exited" =>
                  /\ Cardinality(Positions("restore")) = 1
                  /\ out[Len(out)] = <<"restore", 0>>
                  /\ exc = "none" => status = 0 /\ FramesPrinted = nframes
                  /\ exc # "none" => status = 128)
    /\ [][(tty /\ exc # "none") => FramesPrinted' = FramesPrinted]_vars

\* interrupted in the sleep after the second frame
C6_Witness ==
    /\ tty
    /\ pc = "exited"
    /\ status = 128
    /\ FramesPrinted = 2
    /\ out[Len(out) - 1][1] = "sep"
    /\ out[Len(out)] = <<"restore", 0>>

\* all three frames played, then restored
C6_WitnessCompleted ==
    /\ tty
    /\ pc = "exited"
    /\ status = 0
    /\ FramesPrinted = 3
    /\ out[Len(out)] = <<"restore", 0>>

\* C7: a script written to the end is the header line, then for each frame
\* k = 0..N-1 in order one here-document delimited by FILEk that holds the
\* frame's text, followed by one sleep statement of the delay, then one
\* final cursor-home-and-clear statement: N blocks and N sleeps.
C7_ScriptOutput ==
    (~tty /\ pc = "exited" /\ status = 0) =>
        /\ Len(out) = 6 * nframes + 2
        /\ out[1] = <<"header", 0>>
        /\ \A k \in 0..(nframes - 1) :
              /\ out[6 * k + 2] = <<"cat_heredoc", k>>
              /\ out[6 * k + 3][1] = "cursor_up"
              /\ out[6 * k + 4] = <<"frame", k>>
              /\ out[6 * k + 5][1] = "sep"
              /\ out[6 * k + 6] = <<"end_heredoc", k>>
              /\ out[6 * k + 7] = <<"sleep_stmt", delay>>
        /\ out[Len(out)] = <<"home_and_clear", 0>>
        /\ Cardinality(Positions("sleep_stmt")) = nframes
        /\ Cardinality(Positions("home_and_clear")) = 1

\* two frames with a delay of 0.2
C7_Witness ==
    /\ ~tty
    /\ pc = "exited"
    /\ status = 0
    /\ nframes = 2
    /\ delay = 2
    /\ Len(out) = 14

\* C10: in interactive playback every frame is printed as a cursor-up
\* whose count is the number of text rows of the frame, ceil(height / 8),
\* then the frame, then the separator, then (once the sleep has begun) a
\* wait of the delay; the frames come in sequence order, cyclically with
\* the forever flag and once each without it.
C10_FrameEmission ==
    tty =>
        /\ \A i \in Positions("frame") :
              /\ i > 1
              /\ frame_rows(new_size[2]) = (new_size[2] + 7) \div 8
              /\ out[i - 1] = <<"cursor_up", frame_rows(new_size[2])>>
              /\ i < Len(out)
              /\ out[i + 1][1] = "sep"
              /\ i + 2 <= Len(out) => out[i + 2] \in {<<"wait", delay>>, <<"restore", 0>>}
              /\ out[i][2] = (Cardinality({j \in Positions("frame") : j < i})) % nframes
        /\ ~forever => FramesPrinted <= nframes
        /\ (pc = "exited" /\ exc = "none") => FramesPrinted = nframes

\* what the rest of C10 comes to once the cursor-up count is left open
C10_OrderOnly ==
    tty =>
        /\ \A i \in Positions("frame") :
              /\ i > 1
              /\ out[i - 1][1] = "cursor_up"
              /\ i < Len(out)
              /\ out[i + 1][1] = "sep"
              /\ i + 2 <= Len(out) => out[i + 2] \in {<<"wait", delay>>, <<"restore", 0>>}
              /\ out[i][2] = (Cardinality({j \in Positions("frame") : j < i})) % nframes
        /\ ~forever => FramesPrinted <= nframes
        /\ (pc = "exited" /\ exc = "none") => FramesPrinted = nframes

============================================================================
